---- MODULE Spec2Model ----
(***************************************************************************)
(* A model of fourth/types.py: the two datetime wrappers LocalDatetime and *)
(* UTCDatetime over the host datetime.datetime, their constructors,        *)
(* pseudo-immutability and equality.                                        *)
(*                                                                         *)
(* A native datetime is a record of its seven calendar fields and tzinfo.  *)
(* tzinfo is None (the empty set) or {m}: a fixed offset of m minutes east *)
(* of UTC.  A text is a record of the tokens of the string.  A result is a *)
(* record whose field kind tells what the call returned or raised.         *)
(***************************************************************************)
EXTENDS Integers, Sequences, FiniteSets, TLC

VARIABLES
    objs,        \* the instances created so far, in creation order
    classattrs,  \* LocalDatetime.min/.max and UTCDatetime.min/.max
    last         \* the call just made: its name, receiver, argument and result

vars == <<objs, classattrs, last>>

\* the number of instances a run creates
MaxObjs == 2

(***************************************************************************)
(* The host calendar (datetime.datetime), as far as the wrappers use it.   *)
(***************************************************************************)
None == {}
utc == {0}

MINYEAR == 1
MAXYEAR == 9999

IsLeap(y) == y % 4 = 0 /\ (y % 100 # 0 \/ y % 400 = 0)

DaysInMonth(y, m) ==
    IF m = 2 THEN (IF IsLeap(y) THEN 29 ELSE 28)
    ELSE IF m \in {4, 6, 9, 11} THEN 30 ELSE 31

DaysBeforeYear(y) ==
    LET p == y - 1 IN p * 365 + (p \div 4) - (p \div 100) + (p \div 400)

DaysBeforeMonth(y, m) ==
    <<0, 31, 59, 90, 120, 151, 181, 212, 243, 273, 304, 334>>[m]
        + (IF m > 2 /\ IsLeap(y) THEN 1 ELSE 0)

\* the proleptic Gregorian ordinal of a date: 0001-01-01 is day 1
Ymd2Ord(y, m, d) == DaysBeforeYear(y) + DaysBeforeMonth(y, m) + d

MaxOrdinal == Ymd2Ord(MAXYEAR, 12, 31)

\* the date of an ordinal, by 400-, 100-, 4- and 1-year cycles
Ord2Ymd(ord) ==
    LET n0   == ord - 1
        n400 == n0 \div 146097
        r400 == n0 % 146097
        n100 == r400 \div 36524
        r100 == r400 % 36524
        n4   == r100 \div 1461
        r4   == r100 % 1461
        n1   == r4 \div 365
        n    == r4 % 365
        year == n400 * 400 + 1 + n100 * 100 + n4 * 4 + n1
    IN  IF n1 = 4 \/ n100 = 4
        THEN [year |-> year - 1, month |-> 12, day |-> 31]
        ELSE LET m == CHOOSE k \in 1..12 :
                        /\ DaysBeforeMonth(year, k) <= n
                        /\ n < DaysBeforeMonth(year, k) + DaysInMonth(year, k)
             IN [year |-> year, month |-> m,
                 day |-> n - DaysBeforeMonth(year, m) + 1]

\* what a call returns or raises
Raise(exc, msg) == [kind |-> "raise", exc |-> exc, msg |-> msg]
Return(kind, val) == [kind |-> kind, val |-> val]
ReturnNone == [kind |-> "None"]
NotImplemented == [kind |-> "NotImplemented"]
Raised(r) == r.kind = "raise"

FieldsInRange(y, mo, d, h, mi, s, us) ==
    /\ y \in MINYEAR..MAXYEAR
    /\ mo \in 1..12
    /\ d \in 1..DaysInMonth(y, mo)
    /\ h \in 0..23
    /\ mi \in 0..59
    /\ s \in 0..59
    /\ us \in 0..999999

\* datetime(year=..., ..., tzinfo=tz)
datetime(y, mo, d, h, mi, s, us, tz) ==
    IF FieldsInRange(y, mo, d, h, mi, s, us)
    THEN Return("datetime",
                [year |-> y, month |-> mo, day |-> d, hour |-> h, minute |-> mi,
                 second |-> s, microsecond |-> us, tzinfo |-> tz])
    ELSE Raise("ValueError", "field is out of range")

\* d.replace(tzinfo=tz)
ReplaceTz(d, tz) == [d EXCEPT !.tzinfo = tz]

\* the offset of an aware datetime, in minutes
OffsetOf(d) == CHOOSE m \in d.tzinfo : TRUE

SecondOfDay(d) == d.hour * 3600 + d.minute * 60 + d.second

\* the point in time of d: <<day, second of the day, microsecond>>, where an
\* aware datetime is taken at UTC (the day may lie outside 1..MaxOrdinal)
Instant(d) ==
    LET secs == SecondOfDay(d) - (IF d.tzinfo = None THEN 0 ELSE 60 * OffsetOf(d))
    IN <<Ymd2Ord(d.year, d.month, d.day) + (secs \div 86400), secs % 86400,
         d.microsecond>>

\* the datetime at instant i, stamped tz (the wall time is not shifted)
AtInstant(i, tz) ==
    LET ymd == Ord2Ymd(i[1])
    IN [year |-> ymd.year, month |-> ymd.month, day |-> ymd.day,
        hour |-> i[2] \div 3600, minute |-> (i[2] % 3600) \div 60,
        second |-> i[2] % 60, microsecond |-> i[3], tzinfo |-> tz]

\* d.replace(tzinfo=timezone.utc) in the place of d.astimezone(timezone.utc):
\* the wall time is kept and the offset dropped
replace_tzinfo_utc(d) == Return("datetime", ReplaceTz(d, utc))

\* an astimezone that gives the first or the last datetime at UTC for an
\* instant before or after them, in the place of raising
astimezone_utc_clamped(d) ==
    LET i == Instant(d)
    IN IF i[1] < 1
       THEN Return("datetime", AtInstant(<<1, 0, 0>>, utc))
       ELSE IF i[1] > MaxOrdinal
       THEN Return("datetime", AtInstant(<<MaxOrdinal, 86399, 999999>>, utc))
       ELSE Return("datetime", AtInstant(i, utc))

\* d.astimezone(timezone.utc), d aware
astimezone_utc(d) ==
    LET i == Instant(d)
    IN IF i[1] \in 1..MaxOrdinal
       THEN Return("datetime", AtInstant(i, utc))
       ELSE Raise("OverflowError", "date value out of range")

\* d1 == d2 of two native datetimes: a naive and an aware one are unequal
datetime_eq(d1, d2) ==
    IF (d1.tzinfo = None) # (d2.tzinfo = None) THEN FALSE
    ELSE Instant(d1) = Instant(d2)

(***************************************************************************)
(* Texts.  An ISO 8601 text is the record of its tokens: the date, the     *)
(* separator, the time components present (hour; hour, minute; hour,       *)
(* minute, second), the fraction <<digits, value>> or <<>>, and the offset *)
(* suffix <<sign, hours, minutes>> or <<>>.  A strptime text holds the six *)
(* fields and the offset suffix the string shows.                          *)
(***************************************************************************)
\* the tzinfo an offset suffix denotes
ParseOffset(suffix) ==
    IF suffix = <<>> THEN None
    ELSE {(IF suffix[1] = "-" THEN -1 ELSE 1) * (suffix[2] * 60 + suffix[3])}

\* datetime.fromisoformat(date_string)
fromisoformat(t) ==
    LET n  == Len(t.time)
        us == IF t.frac = <<>> THEN 0
              ELSE IF t.frac[1] = 3 THEN t.frac[2] * 1000 ELSE t.frac[2]
    IN IF \/ n < 1
          \/ (t.frac # <<>> /\ (n < 3 \/ t.frac[1] \notin {3, 6}))
          \/ (t.offset # <<>> /\ (t.offset[2] > 23 \/ t.offset[3] > 59))
       THEN Raise("ValueError", "Invalid isoformat string")
       ELSE datetime(t.date[1], t.date[2], t.date[3], t.time[1],
                     IF n >= 2 THEN t.time[2] ELSE 0,
                     IF n >= 3 THEN t.time[3] ELSE 0,
                     us, ParseOffset(t.offset))

FormatHasZ(format_string) == format_string = "%Y/%m/%d %H:%M:%S %z"

\* datetime.strptime(date_string, format_string): the string must show an
\* offset exactly when the format has the %z directive
datetime_strptime(t, format_string) ==
    IF (t.offset # <<>>) # FormatHasZ(format_string)
    THEN Raise("ValueError", "time data does not match format")
    ELSE datetime(t.fields[1], t.fields[2], t.fields[3], t.fields[4],
                  t.fields[5], t.fields[6], 0, ParseOffset(t.offset))

\* datetime.fromtimestamp(timestamp, timezone.utc), timestamp = <<seconds,
\* microseconds>> since 1970-01-01T00:00:00+00:00
fromtimestamp_utc(ts) ==
    AtInstant(<<Ymd2Ord(1970, 1, 1) + (ts[1] \div 86400), ts[1] % 86400, ts[2]>>,
              utc)

(***************************************************************************)
(* The wrappers.  An instance is [cls, _at]; a method that may change its  *)
(* receiver returns [res, self]: what the call returned and the receiver   *)
(* after the call.                                                         *)
(***************************************************************************)
Unset == [unset |-> TRUE]

\* object.__new__(cls): the slot _at is not set yet
Fresh(cls) == [cls |-> cls, _at |-> Unset]

\* BaseDatetime.__init__: object.__setattr__(self, "_at", from_datetime)
BaseDatetime_init(self, from_datetime) ==
    [res |-> ReturnNone, self |-> [self EXCEPT !._at = from_datetime]]

\* LocalDatetime.__init__ without its check of tzinfo
LocalDatetime_init_unchecked(self, at) == BaseDatetime_init(self, at)

\* LocalDatetime.__init__
LocalDatetime_init(self, at) ==
    IF at.tzinfo # None
    THEN [res |-> Raise("ValueError",
                        "LocalDatetime can't be initialised with an aware datetime"),
          self |-> self]
    ELSE BaseDatetime_init(self, at)

\* UTCDatetime.__init__ without the conversion: the offset is stored as given
UTCDatetime_init_unconverted(self, at) ==
    IF at.tzinfo = None
    THEN [res |-> Raise("ValueError",
                        "UTCDatetime can't be initialised with a naive datetime"),
          self |-> self]
    ELSE BaseDatetime_init(self, at)

\* UTCDatetime.__init__
UTCDatetime_init(self, at) ==
    IF at.tzinfo = None
    THEN [res |-> Raise("ValueError",
                        "UTCDatetime can't be initialised with a naive datetime"),
          self |-> self]
    ELSE LET conv == astimezone_utc(at)
         IN IF Raised(conv) THEN [res |-> conv, self |-> self]
            ELSE BaseDatetime_init(self, conv.val)

\* self.__init__(at), dispatched on the class of self
CallInit(self, at) ==
    IF self.cls = "LocalDatetime" THEN LocalDatetime_init(self, at)
    ELSE UTCDatetime_init(self, at)

\* cls(at) where __init__ of BaseDatetime is not abstract: the base class is
\* instantiated like any other
New_not_abstract(cls, at) ==
    LET r == IF cls = "BaseDatetime" THEN BaseDatetime_init(Fresh(cls), at)
             ELSE CallInit(Fresh(cls), at)
    IN IF Raised(r.res) THEN r.res ELSE Return("instance", r.self)

\* cls(at): the instance, or what the call raised.  BaseDatetime has the
\* abstract method __init__ and ABCMeta refuses to instantiate it.
New(cls, at) ==
    IF cls = "BaseDatetime"
    THEN Raise("TypeError",
               "Can't instantiate abstract class BaseDatetime with abstract method __init__")
    ELSE LET r == CallInit(Fresh(cls), at)
         IN IF Raised(r.res) THEN r.res ELSE Return("instance", r.self)

\* LocalDatetime.at(year, month, day, hour, minute, second, microsecond)
LocalDatetime_at(f) ==
    LET d == datetime(f[1], f[2], f[3], f[4], f[5], f[6], f[7], None)
    IN IF Raised(d) THEN d ELSE New("LocalDatetime", d.val)

\* LocalDatetime.now(); clock is the reading of datetime.now()
LocalDatetime_now(clock) == New("LocalDatetime", clock)

\* LocalDatetime.from_iso_format(date_string)
LocalDatetime_from_iso_format(date_string) ==
    LET datetime_obj == fromisoformat(date_string)
    IN IF Raised(datetime_obj) THEN datetime_obj
       ELSE IF datetime_obj.val.tzinfo # None
       THEN Raise("ValueError", "fromisoformat: date_string contained tz info")
       ELSE New("LocalDatetime", datetime_obj.val)

\* LocalDatetime.strptime that drops the offset it has parsed
LocalDatetime_strptime_dropping(date_string, format_string) ==
    LET datetime_obj == datetime_strptime(date_string, format_string)
    IN IF Raised(datetime_obj) THEN datetime_obj
       ELSE New("LocalDatetime", ReplaceTz(datetime_obj.val, None))

\* LocalDatetime.strptime(date_string, format_string)
LocalDatetime_strptime(date_string, format_string) ==
    LET datetime_obj == datetime_strptime(date_string, format_string)
    IN IF Raised(datetime_obj) THEN datetime_obj
       ELSE IF datetime_obj.val.tzinfo # None
       THEN Raise("ValueError", "strptime: date_string contained tz info")
       ELSE New("LocalDatetime", datetime_obj.val)

\* UTCDatetime.at(*, year, month, day, hour, minute, second, microsecond):
\* the parameters are keyword-only
UTCDatetime_at(f, positional) ==
    IF positional
    THEN Raise("TypeError", "at() takes 1 positional argument but more were given")
    ELSE LET d == datetime(f[1], f[2], f[3], f[4], f[5], f[6], f[7], utc)
         IN IF Raised(d) THEN d ELSE New("UTCDatetime", d.val)

\* UTCDatetime.now(); clock is the reading of datetime.now(timezone.utc)
UTCDatetime_now(clock) == New("UTCDatetime", clock)

\* UTCDatetime.from_timestamp(timestamp)
UTCDatetime_from_timestamp(timestamp) ==
    New("UTCDatetime", fromtimestamp_utc(timestamp))

\* UTCDatetime.from_iso_format that takes the wall time of the text for the
\* time at UTC, whatever offset the text has
UTCDatetime_from_iso_format_wall(date_string) ==
    LET datetime_obj == fromisoformat(date_string)
    IN IF Raised(datetime_obj) THEN datetime_obj
       ELSE IF datetime_obj.val.tzinfo = None
       THEN Raise("ValueError", "fromisoformat: date_string didn't contain tz info")
       ELSE New("UTCDatetime", ReplaceTz(datetime_obj.val, utc))

\* UTCDatetime.from_iso_format(date_string)
UTCDatetime_from_iso_format(date_string) ==
    LET datetime_obj == fromisoformat(date_string)
    IN IF Raised(datetime_obj) THEN datetime_obj
       ELSE IF datetime_obj.val.tzinfo = None
       THEN Raise("ValueError", "fromisoformat: date_string didn't contain tz info")
       ELSE New("UTCDatetime", datetime_obj.val)

\* UTCDatetime.strptime(date_string, format_string)
UTCDatetime_strptime(date_string, format_string) ==
    LET datetime_obj == datetime_strptime(date_string, format_string)
    IN IF Raised(datetime_obj) THEN datetime_obj
       ELSE IF datetime_obj.val.tzinfo = None
       THEN Raise("ValueError", "strptime: date_string didn't contain tz info")
       ELSE New("UTCDatetime", datetime_obj.val)

(***************************************************************************)
(* Equality, hashing and the read-only methods.  A value is an instance    *)
(* [cls, _at], a native datetime [cls |-> "datetime", val] or a value of   *)
(* an unrelated type [cls |-> "int" or "str", val].                        *)
(***************************************************************************)
Bool(b) == Return("bool", b)

Native(d) == [cls |-> "datetime", val |-> d]

\* LocalDatetime.__eq__ that compares the calendar fields of any wrapper
LocalDatetime_eq_any_wrapper(self, other) ==
    IF other.cls \in {"LocalDatetime", "UTCDatetime"}
    THEN Return("bool", ReplaceTz(other._at, None) = self._at)
    ELSE IF other.cls = "datetime"
    THEN Return("bool", other.val.tzinfo = None /\ datetime_eq(other.val, self._at))
    ELSE Return("bool", FALSE)

\* LocalDatetime.__eq__
LocalDatetime_eq(self, other) ==
    IF other.cls = "LocalDatetime" THEN Bool(datetime_eq(other._at, self._at))
    ELSE IF other.cls = "datetime"
    THEN Bool(other.val.tzinfo = None /\ datetime_eq(other.val, self._at))
    ELSE Bool(FALSE)

\* UTCDatetime.__eq__ that takes a native datetime only at offset zero
UTCDatetime_eq_utc_only(self, other) ==
    IF other.cls = "UTCDatetime"
    THEN Return("bool", datetime_eq(other._at, self._at))
    ELSE IF other.cls = "datetime"
    THEN Return("bool", other.val.tzinfo = utc /\ datetime_eq(other.val, self._at))
    ELSE Return("bool", FALSE)

\* UTCDatetime.__eq__
UTCDatetime_eq(self, other) ==
    IF other.cls = "UTCDatetime" THEN Bool(datetime_eq(other._at, self._at))
    ELSE IF other.cls = "datetime"
    THEN Bool(other.val.tzinfo # None /\ datetime_eq(other.val, self._at))
    ELSE Bool(FALSE)

\* a.__eq__(b): the wrappers' methods; datetime, int and str compare with
\* their own type and return NotImplemented for any other
CallEq(a, b) ==
    IF a.cls = "LocalDatetime" THEN LocalDatetime_eq(a, b)
    ELSE IF a.cls = "UTCDatetime" THEN UTCDatetime_eq(a, b)
    ELSE IF a.cls # b.cls THEN NotImplemented
    ELSE IF a.cls = "datetime" THEN Bool(datetime_eq(a.val, b.val))
    ELSE Bool(a.val = b.val)

\* a == b: a.__eq__(b), then the reflected b.__eq__(a), then identity (the
\* two operands are distinct objects)
OperatorEq(a, b) ==
    LET r1 == CallEq(a, b)
    IN IF r1 # NotImplemented THEN r1
       ELSE LET r2 == CallEq(b, a)
            IN IF r2 # NotImplemented THEN r2 ELSE Bool(FALSE)

\* hash(d) of a native datetime: equal for equal datetimes
datetime_hash(d) ==
    Return("int", <<IF d.tzinfo = None THEN 0 ELSE 1>> \o Instant(d))

\* hash(self): both classes define __eq__ and no __hash__, which sets their
\* __hash__ to None
Wrapper_hash(self) ==
    Raise("TypeError", "unhashable type: '" \o self.cls \o "'")

\* BaseDatetime.__setattr__ that lets the slot _at be assigned
BaseDatetime_setattr_slot(self, name, value) ==
    IF name = "_at" THEN [res |-> ReturnNone, self |-> [self EXCEPT !._at = value]]
    ELSE [res |-> Raise("AttributeError",
                        "'" \o self.cls \o "' object has no attribute '" \o name \o "'"),
          self |-> self]

\* BaseDatetime.__setattr__
BaseDatetime_setattr(self, name, value) ==
    [res |-> Raise("AttributeError",
                   "'" \o self.cls \o "' object has no attribute '" \o name \o "'"),
     self |-> self]

\* BaseDatetime.__delattr__
BaseDatetime_delattr(self, name) ==
    [res |-> Raise("AttributeError",
                   "'" \o self.cls \o "' object has no attribute '" \o name \o "'"),
     self |-> self]

\* the properties year, month, day, hour, minute, second, microsecond
BaseDatetime_property(self, name) ==
    Return("int",
           CASE name = "year" -> self._at.year
             [] name = "month" -> self._at.month
             [] name = "day" -> self._at.day
             [] name = "hour" -> self._at.hour
             [] name = "minute" -> self._at.minute
             [] name = "second" -> self._at.second
             [] name = "microsecond" -> self._at.microsecond)

\* BaseDatetime.as_datetime
BaseDatetime_as_datetime(self) == Return("datetime", self._at)

\* the offset suffix of a tzinfo: <<>> or <<sign, hours, minutes>>
FormatOffset(tz) ==
    IF tz = None THEN <<>>
    ELSE LET m == CHOOSE k \in tz : TRUE
             a == IF m < 0 THEN -m ELSE m
         IN <<IF m < 0 THEN "-" ELSE "+", a \div 60, a % 60>>

\* d.isoformat(sep=sep, timespec=timespec)
isoformat(d, sep, timespec) ==
    LET spec == IF timespec # "auto" THEN timespec
                ELSE IF d.microsecond = 0 THEN "seconds" ELSE "microseconds"
    IN [date   |-> <<d.year, d.month, d.day>>,
        sep    |-> sep,
        time   |-> CASE spec = "hours" -> <<d.hour>>
                     [] spec = "minutes" -> <<d.hour, d.minute>>
                     [] OTHER -> <<d.hour, d.minute, d.second>>,
        frac   |-> CASE spec = "milliseconds" -> <<3, d.microsecond \div 1000>>
                     [] spec = "microseconds" -> <<6, d.microsecond>>
                     [] OTHER -> <<>>,
        offset |-> FormatOffset(d.tzinfo)]

\* BaseDatetime.iso_format that cuts the time to milliseconds where
\* microseconds are asked for
BaseDatetime_iso_format_millis(self, sep, timespec) ==
    Return("str",
           isoformat(self._at, sep,
                     IF timespec = "microseconds" THEN "milliseconds" ELSE timespec))

\* BaseDatetime.iso_format that does not pass timespec on: isoformat then
\* takes its own default, auto
BaseDatetime_iso_format_auto(self, sep, timespec) ==
    Return("str", isoformat(self._at, sep, "auto"))

\* BaseDatetime.iso_format that formats the wall time alone: the offset of
\* the stored datetime is dropped first
BaseDatetime_iso_format_wall(self, sep, timespec) ==
    Return("str", isoformat(ReplaceTz(self._at, None), sep, timespec))

\* BaseDatetime.iso_format
BaseDatetime_iso_format(self, sep, timespec) ==
    Return("str", isoformat(self._at, sep, timespec))

\* the defaults of iso_format: sep="T", timespec="microseconds"
DefaultSep == "T"
DefaultTimespec == "microseconds"

\* self.iso_format(), the text of the call with the defaults
IsoFormatDefault(self) ==
    BaseDatetime_iso_format(self, DefaultSep, DefaultTimespec).val

\* BaseDatetime.__str__
BaseDatetime_str(self) == BaseDatetime_iso_format(self, "T", "microseconds")

\* repr(d) of a native datetime: the second and the microsecond are left out
\* when both are 0, the microsecond when it is 0, tzinfo when it is None
datetime_repr(d) ==
    [call |-> "datetime.datetime",
     args |-> <<d.year, d.month, d.day, d.hour, d.minute>>
                \o (IF d.microsecond # 0 THEN <<d.second, d.microsecond>>
                    ELSE IF d.second # 0 THEN <<d.second>> ELSE <<>>),
     tzinfo |-> FormatOffset(d.tzinfo)]

\* BaseDatetime.__repr__
BaseDatetime_repr(self) ==
    Return("str", [call |-> self.cls, args |-> <<datetime_repr(self._at)>>])

(***************************************************************************)
(* What the classes do not define.  The class statements of types.py give  *)
(* the names below; any other name is looked up on object, which has the   *)
(* rich comparison methods and nothing for arithmetic, formatting by       *)
(* strftime or __setstate__.                                               *)
(***************************************************************************)
\* the two concrete classes
Classes == {"LocalDatetime", "UTCDatetime"}

\* the names a class statement defines
ClassDict(cls) ==
    CASE cls = "BaseDatetime" ->
            {"_at", "__slots__", "__init__", "__setattr__", "__delattr__",
             "__repr__", "__str__", "year", "month", "day", "hour", "minute",
             "second", "microsecond", "as_datetime", "iso_format"}
      [] cls = "LocalDatetime" ->
            {"__slots__", "__init__", "__eq__", "at", "now", "from_iso_format",
             "strptime", "min", "max"}
      [] cls = "UTCDatetime" ->
            {"__slots__", "__init__", "__eq__", "at", "now", "from_timestamp",
             "from_iso_format", "strptime", "min", "max"}

\* the names found on cls or on BaseDatetime
Defines(cls, name) == name \in ClassDict(cls) \cup ClassDict("BaseDatetime")

\* object.__lt__, __le__, __gt__ and __ge__, which every class inherits
ObjectOrdering == {"__lt__", "__le__", "__gt__", "__ge__"}

\* self.__lt__(other), ...: the method of object
object_richcmp(self, other) == NotImplemented

\* self.name(...) for a name that neither the class of self, BaseDatetime nor
\* object defines
MissingMethod(self, name) ==
    Raise("AttributeError",
          "'" \o self.cls \o "' object has no attribute '" \o name \o "'")

\* cls.name(...) for a name the class does not define
MissingClassMethod(cls, name) ==
    Raise("AttributeError",
          "type object '" \o cls \o "' has no attribute '" \o name \o "'")

\* the name of the type of a value, as Python prints it
TypeName(v) ==
    CASE v.cls = "datetime" -> "datetime.datetime"
      [] v.cls = "timedelta" -> "datetime.timedelta"
      [] OTHER -> v.cls

\* a < b, a <= b, a > b, a >= b where a or b is an instance: a.__lt__(b) of
\* an instance is object's, and datetime, str and int return NotImplemented
\* for an instance; so does the reflected method, and Python raises
OperatorOrder(sym, a, b) ==
    LET r1 == IF a.cls \in Classes THEN object_richcmp(a, b) ELSE NotImplemented
        r2 == IF b.cls \in Classes THEN object_richcmp(b, a) ELSE NotImplemented
    IN IF r1 # NotImplemented THEN r1
       ELSE IF r2 # NotImplemented THEN r2
       ELSE Raise("TypeError",
                  "'" \o sym \o "' not supported between instances of '"
                      \o TypeName(a) \o "' and '" \o TypeName(b) \o "'")

\* a + b and a - b where a or b is an instance: the classes define none of
\* __add__, __radd__, __sub__, __rsub__, and timedelta, datetime, str and int
\* return NotImplemented for an instance, so Python raises
OperatorArith(sym, a, b) ==
    Raise("TypeError",
          "unsupported operand type(s) for " \o sym \o ": '" \o TypeName(a)
              \o "' and '" \o TypeName(b) \o "'")

\* self.__getstate__(): object.__getstate__ where the interpreter has it
\* (Python 3.11 and later), which gives (None, {"_at": self._at}) for a class
\* with __slots__; no such attribute before
Wrapper_getstate(self, has_default) ==
    IF has_default
    THEN Return("tuple", [dict |-> None, slots |-> [_at |-> self._at]])
    ELSE MissingMethod(self, "__getstate__")

\* pickle.loads(pickle.dumps(self, protocol)).  dumps: copyreg refuses a
\* class with __slots__ and no __getstate__ at protocols 0 and 1.  loads: the
\* new object has no __setstate__, so each slot of the state is set with
\* setattr, which is BaseDatetime.__setattr__
pickle_roundtrip(self, protocol, has_default) ==
    IF protocol < 2 /\ ~has_default
    THEN Raise("TypeError",
               "a class that defines __slots__ without defining __getstate__ cannot be pickled")
    ELSE BaseDatetime_setattr(Fresh(self.cls), "_at", self._at).res

(***************************************************************************)
(* The inputs the calls are made with.                                     *)
(***************************************************************************)
Mk(f, tz) ==
    [year |-> f[1], month |-> f[2], day |-> f[3], hour |-> f[4], minute |-> f[5],
     second |-> f[6], microsecond |-> f[7], tzinfo |-> tz]

datetime_min == Mk(<<MINYEAR, 1, 1, 0, 0, 0, 0>>, None)
datetime_max == Mk(<<MAXYEAR, 12, 31, 23, 59, 59, 999999>>, None)

LateWall   == <<2020, 3, 4, 23, 59, 59, 333444>>
EarlyWall  == <<2020, 3, 4, 19, 29, 59, 333444>>
MarchFirst == <<2020, 3, 1, 0, 0, 0, 0>>
YearEnd    == <<2019, 12, 31, 23, 0, 0, 0>>

NaiveInputs == {datetime_min, datetime_max, Mk(LateWall, None)}

\* LateWall at +04:30 and EarlyWall at +00:00 are one instant; the first
\* instant at +04:30 and the last at -05:30 have no UTC form in range; March
\* 1st at +04:30 is February 29th at UTC, and 2019 ends at -05:30 in 2020
AwareInputs ==
    {Mk(LateWall, {270}), Mk(EarlyWall, utc), Mk(LateWall, utc),
     ReplaceTz(datetime_min, utc), ReplaceTz(datetime_min, {270}),
     ReplaceTz(datetime_min, {-330}),
     ReplaceTz(datetime_max, utc), ReplaceTz(datetime_max, {-330}),
     Mk(MarchFirst, {270}), Mk(YearEnd, {-330})}

Datetimes == NaiveInputs \cup AwareInputs

AtInputs ==
    {LateWall, <<MINYEAR, 1, 1, 0, 0, 0, 0>>,
     <<MAXYEAR, 12, 31, 23, 59, 59, 999999>>,
     <<2020, 13, 1, 0, 0, 0, 0>>, <<2020, 2, 30, 0, 0, 0, 0>>,
     <<2020, 1, 32, 0, 0, 0, 0>>}

\* the texts isoformat gives for the datetimes, the text of 19:29:59.333444
\* at +04:30, and one of no valid date
IsoTexts ==
    {isoformat(d, "T", "microseconds") : d \in Datetimes}
        \cup {isoformat(Mk(EarlyWall, {270}), "T", "microseconds")}
        \cup {[date |-> <<2020, 13, 1>>, sep |-> "T", time |-> <<0, 0, 0>>,
               frac |-> <<>>, offset |-> <<"+", 0, 0>>]}

Formats == {"%Y/%m/%d %H:%M:%S", "%Y/%m/%d %H:%M:%S %z"}

StrptimeTexts ==
    {[fields |-> <<MINYEAR, 1, 1, 0, 0, 0>>, offset |-> <<>>],
     [fields |-> <<2019, 12, 31, 23, 0, 0>>, offset |-> <<"-", 5, 30>>],
     [fields |-> <<2020, 1, 1, 4, 30, 0>>, offset |-> <<"+", 0, 0>>],
     [fields |-> <<MINYEAR, 1, 1, 0, 0, 0>>, offset |-> <<"+", 4, 30>>]}

Timestamps == {<<1200300400, 0>>}

Unrelated == {[cls |-> "int", val |-> "1"], [cls |-> "str", val |-> "foo"]}

\* the native datetimes compared with and subtracted from instances
Operands == {Native(Mk(LateWall, None)), Native(Mk(LateWall, {270}))}

\* timedelta(hours=12) and timedelta(hours=-18), as <<days, seconds,
\* microseconds>>
Timedelta(days, seconds, microseconds) ==
    [cls |-> "timedelta", val |-> <<days, seconds, microseconds>>]

Durations == {Timedelta(0, 43200, 0), Timedelta(-1, 21600, 0)}

Bar == [cls |-> "str", val |-> "bar"]

\* format strings, character by character: %Y-%m-%d alone, then followed by
\* %z, %%z, %%%Z, %%%%Z and %%%%%z, and %Z at the start
DateFormat == <<"%", "Y", "-", "%", "m", "-", "%", "d">>

StrftimeFormats ==
    {DateFormat,
     DateFormat \o <<" ", "%", "z">>,
     <<"%", "Z", " ">> \o DateFormat,
     DateFormat \o <<" ", "%", "%", "z">>,
     DateFormat \o <<" ", "%", "%", "%", "Z">>,
     DateFormat \o <<" ", "%", "%", "%", "%", "Z">>,
     DateFormat \o <<" ", "%", "%", "%", "%", "%", "z">>}

\* the states given to __setstate__
States == {Mk(<<2020, 8, 30, 0, 0, 0, 0>>, None), Mk(<<2020, 8, 30, 0, 0, 0, 0>>, utc)}

\* range(0, pickle.HIGHEST_PROTOCOL + 1)
PickleProtocols == 0..5

AttrNames == {"_at", "year", "foo"}

PropertyNames ==
    {"year", "month", "day", "hour", "minute", "second", "microsecond"}

Timespecs ==
    {"auto", "hours", "minutes", "seconds", "milliseconds", "microseconds"}

(***************************************************************************)
(* The state machine: one action per call.                                 *)
(***************************************************************************)
Slots == 1..Len(objs)

\* no call is being looked at
Idle == [op |-> "idle", cls |-> "", self |-> 0, arg |-> <<>>, res |-> ReturnNone]

\* LocalDatetime.min = LocalDatetime(datetime.min), ... at import
Init ==
    /\ objs = <<>>
    /\ classattrs =
         [LocalDatetime |->
            [min |-> New("LocalDatetime", datetime_min).val,
             max |-> New("LocalDatetime", datetime_max).val],
          UTCDatetime |->
            [min |-> New("UTCDatetime", ReplaceTz(datetime_min, utc)).val,
             max |-> New("UTCDatetime", ReplaceTz(datetime_max, utc)).val]]
    /\ last = Idle

\* a call of a constructor that returned or raised r: the new instance, if
\* any, is kept, and the call returns a reference to it
Constructed(op, cls, arg, r) ==
    /\ last.op = "idle"
    /\ Len(objs) < MaxObjs
    /\ objs' = IF r.kind = "instance" THEN Append(objs, r.val) ELSE objs
    /\ last' = [op |-> op, cls |-> cls, self |-> 0, arg |-> arg,
                res |-> IF r.kind = "instance"
                        THEN Return("instance", Len(objs) + 1) ELSE r]
    /\ UNCHANGED classattrs

\* a call on objs[i] that returned or raised r.res and left the receiver r.self
Called(op, i, arg, r) ==
    /\ last.op = "idle"
    /\ objs' = [objs EXCEPT ![i] = r.self]
    /\ last' = [op |-> op, cls |-> objs[i].cls, self |-> i, arg |-> arg,
                res |-> r.res]
    /\ UNCHANGED classattrs

\* a call on objs[i] of a method that only reads it
Read(op, i, arg, res) == Called(op, i, arg, [res |-> res, self |-> objs[i]])

\* cls(d)
Construct ==
    /\ last.op = "idle"
    /\ \E cls \in Classes \cup {"BaseDatetime"}, d \in Datetimes :
           Constructed("new", cls, d, New(cls, d))

\* cls.at(...), with keyword or with positional arguments
At ==
    /\ last.op = "idle"
    /\ \E cls \in Classes, f \in AtInputs, positional \in BOOLEAN :
           Constructed("at", cls, [fields |-> f, positional |-> positional],
                       IF cls = "LocalDatetime" THEN LocalDatetime_at(f)
                       ELSE UTCDatetime_at(f, positional))

\* cls.now()
Now ==
    /\ last.op = "idle"
    /\ \/ \E clock \in NaiveInputs :
             Constructed("now", "LocalDatetime", clock, LocalDatetime_now(clock))
       \/ \E clock \in {d \in AwareInputs : d.tzinfo = utc} :
             Constructed("now", "UTCDatetime", clock, UTCDatetime_now(clock))

\* UTCDatetime.from_timestamp(timestamp)
FromTimestamp ==
    /\ last.op = "idle"
    /\ \E ts \in Timestamps :
           Constructed("from_timestamp", "UTCDatetime", ts,
                       UTCDatetime_from_timestamp(ts))

\* cls.from_iso_format(date_string)
FromIsoFormat ==
    /\ last.op = "idle"
    /\ \E cls \in Classes, t \in IsoTexts :
           Constructed("from_iso_format", cls, t,
                       IF cls = "LocalDatetime" THEN LocalDatetime_from_iso_format(t)
                       ELSE UTCDatetime_from_iso_format(t))

\* cls.from_iso_format(objs[i].iso_format()): the text of an instance, read
\* back by either class
FromOwnIsoFormat ==
    /\ last.op = "idle"
    /\ \E cls \in Classes, i \in Slots :
           LET t == IsoFormatDefault(objs[i])
           IN Constructed("from_iso_format", cls, t,
                          IF cls = "LocalDatetime" THEN LocalDatetime_from_iso_format(t)
                          ELSE UTCDatetime_from_iso_format(t))

\* cls.strptime(date_string, format_string)
Strptime ==
    /\ last.op = "idle"
    /\ \E cls \in Classes, t \in StrptimeTexts, fmt \in Formats :
           Constructed("strptime", cls, [date_string |-> t, format_string |-> fmt],
                       IF cls = "LocalDatetime" THEN LocalDatetime_strptime(t, fmt)
                       ELSE UTCDatetime_strptime(t, fmt))

\* objs[i].__init__(d): the initialiser called again on an existing instance
ReInit ==
    /\ last.op = "idle"
    /\ \E i \in Slots, d \in Datetimes :
           Called("__init__", i, d, CallInit(objs[i], d))

\* setattr(objs[i], name, value)
SetAttr ==
    /\ last.op = "idle"
    /\ \E i \in Slots, name \in AttrNames, value \in Unrelated :
           Called("__setattr__", i, [name |-> name, value |-> value],
                  BaseDatetime_setattr(objs[i], name, value))

\* delattr(objs[i], name)
DelAttr ==
    /\ last.op = "idle"
    /\ \E i \in Slots, name \in AttrNames :
           Called("__delattr__", i, [name |-> name],
                  BaseDatetime_delattr(objs[i], name))

\* objs[i].__eq__(other)
EqMethodWith(i, other) == Read("__eq__", i, other, CallEq(objs[i], other))

\* an instance is compared with an instance, a native datetime, or a value
\* of an unrelated type
EqMethod ==
    /\ last.op = "idle"
    /\ \E i \in Slots :
           \/ \E j \in Slots : EqMethodWith(i, objs[j])
           \/ \E d \in Datetimes : EqMethodWith(i, Native(d))
           \/ \E u \in Unrelated : EqMethodWith(i, u)

\* objs[i] == other and other == objs[i]
EqOperatorWith(i, other) ==
    \/ Read("==", i, [left |-> objs[i], right |-> other],
            OperatorEq(objs[i], other))
    \/ Read("==", i, [left |-> other, right |-> objs[i]],
            OperatorEq(other, objs[i]))

EqOperator ==
    /\ last.op = "idle"
    /\ \E i \in Slots :
           \/ \E j \in Slots : EqOperatorWith(i, objs[j])
           \/ \E d \in Datetimes : EqOperatorWith(i, Native(d))
           \/ \E u \in Unrelated : EqOperatorWith(i, u)

\* hash(objs[i])
Hash ==
    /\ last.op = "idle"
    /\ \E i \in Slots : Read("__hash__", i, <<>>, Wrapper_hash(objs[i]))

\* objs[i].year, ...
Property ==
    /\ last.op = "idle"
    /\ \E i \in Slots, name \in PropertyNames :
           Read("property", i, name, BaseDatetime_property(objs[i], name))

\* objs[i].as_datetime()
AsDatetime ==
    /\ last.op = "idle"
    /\ \E i \in Slots : Read("as_datetime", i, <<>>, BaseDatetime_as_datetime(objs[i]))

\* objs[i].iso_format(sep=sep, timespec=timespec)
IsoFormat ==
    /\ last.op = "idle"
    /\ \E i \in Slots, sep \in {"T", " "}, timespec \in Timespecs :
           Read("iso_format", i, [sep |-> sep, timespec |-> timespec],
                BaseDatetime_iso_format(objs[i], sep, timespec))

\* str(objs[i])
Str ==
    /\ last.op = "idle"
    /\ \E i \in Slots : Read("__str__", i, <<>>, BaseDatetime_str(objs[i]))

\* repr(objs[i])
Repr ==
    /\ last.op = "idle"
    /\ \E i \in Slots : Read("__repr__", i, <<>>, BaseDatetime_repr(objs[i]))

\* objs[i].__lt__(other), __le__, __gt__, __ge__
OrderMethod ==
    /\ last.op = "idle"
    /\ \E i \in Slots, name \in ObjectOrdering :
           \/ \E j \in Slots :
                 Read(name, i, objs[j], object_richcmp(objs[i], objs[j]))
           \/ \E d \in Operands : Read(name, i, d, object_richcmp(objs[i], d))
           \/ Read(name, i, Bar, object_richcmp(objs[i], Bar))

\* objs[i] < other, <=, >, >=
OrderOperator ==
    /\ last.op = "idle"
    /\ \E i \in Slots, sym \in {"<", "<=", ">", ">="} :
           \/ \E j \in Slots :
                 Read(sym, i, [left |-> objs[i], right |-> objs[j]],
                      OperatorOrder(sym, objs[i], objs[j]))
           \/ \E d \in Operands :
                 Read(sym, i, [left |-> objs[i], right |-> d],
                      OperatorOrder(sym, objs[i], d))

\* objs[i].__add__(other), __radd__, __sub__, __rsub__
ArithMethodWith(i, name, other) ==
    /\ Read(name, i, other, MissingMethod(objs[i], name))
    /\ ~Defines(objs[i].cls, name)

ArithMethod ==
    /\ last.op = "idle"
    /\ \E i \in Slots :
           \/ \E name \in {"__add__", "__radd__", "__sub__"}, t \in Durations :
                 ArithMethodWith(i, name, t)
           \/ \E name \in {"__sub__", "__rsub__"}, d \in Operands :
                 ArithMethodWith(i, name, d)
           \/ \E j \in Slots : ArithMethodWith(i, "__sub__", objs[j])
           \/ \E name \in {"__add__", "__radd__", "__sub__", "__rsub__"} :
                 ArithMethodWith(i, name, Bar)

\* left + right and left - right, objs[i] being one of the two
ArithOperatorWith(i, sym, left, right) ==
    Read(sym, i, [left |-> left, right |-> right], OperatorArith(sym, left, right))

ArithOperator ==
    /\ last.op = "idle"
    /\ \E i \in Slots :
           \/ \E t \in Durations :
                 \/ ArithOperatorWith(i, "+", objs[i], t)
                 \/ ArithOperatorWith(i, "+", t, objs[i])
                 \/ ArithOperatorWith(i, "-", objs[i], t)
           \/ \E d \in Operands :
                 \/ ArithOperatorWith(i, "-", objs[i], d)
                 \/ ArithOperatorWith(i, "-", d, objs[i])
           \/ \E j \in Slots : ArithOperatorWith(i, "-", objs[i], objs[j])
           \/ ArithOperatorWith(i, "+", objs[i], Bar)
           \/ ArithOperatorWith(i, "-", objs[i], Bar)
           \/ ArithOperatorWith(i, "-", Bar, objs[i])

\* objs[i].strftime(format_string)
Strftime ==
    /\ last.op = "idle"
    /\ \E i \in Slots, fmt \in StrftimeFormats :
           /\ Read("strftime", i, fmt, MissingMethod(objs[i], "strftime"))
           /\ ~Defines(objs[i].cls, "strftime")

\* BaseDatetime.strftime(objs[i], format_string)
BaseStrftime ==
    /\ last.op = "idle"
    /\ \E i \in Slots :
           /\ Read("BaseDatetime.strftime", i, DateFormat,
                   MissingClassMethod("BaseDatetime", "strftime"))
           /\ "strftime" \notin ClassDict("BaseDatetime")

\* BaseDatetime.at(year=..., month=..., day=...)
BaseAt ==
    /\ last.op = "idle"
    /\ \E f \in AtInputs :
           /\ Constructed("at", "BaseDatetime", [fields |-> f, positional |-> FALSE],
                          MissingClassMethod("BaseDatetime", "at"))
           /\ "at" \notin ClassDict("BaseDatetime")

\* objs[i].__getstate__()
GetState ==
    /\ last.op = "idle"
    /\ \E i \in Slots, has_default \in BOOLEAN :
           Read("__getstate__", i, <<>>, Wrapper_getstate(objs[i], has_default))

\* objs[i].__setstate__(state)
SetState ==
    /\ last.op = "idle"
    /\ \E i \in Slots, state \in States :
           /\ Read("__setstate__", i, state, MissingMethod(objs[i], "__setstate__"))
           /\ ~Defines(objs[i].cls, "__setstate__")

\* pickle.loads(pickle.dumps(objs[i], protocol=protocol))
Pickle ==
    /\ last.op = "idle"
    /\ \E i \in Slots, protocol \in PickleProtocols, has_default \in BOOLEAN :
           Read("pickle", i, [protocol |-> protocol],
                pickle_roundtrip(objs[i], protocol, has_default))

\* the caller has seen the result of its call and goes on to the next one
Continue ==
    /\ last.op # "idle"
    /\ last' = Idle
    /\ UNCHANGED <<objs, classattrs>>

Next ==
    \/ Continue
    \/ Construct \/ At \/ Now \/ FromTimestamp \/ FromIsoFormat \/ Strptime
    \/ FromOwnIsoFormat
    \/ ReInit \/ SetAttr \/ DelAttr
    \/ EqMethod \/ EqOperator \/ Hash
    \/ Property \/ AsDatetime \/ IsoFormat \/ Str \/ Repr
    \/ OrderMethod \/ OrderOperator \/ ArithMethod \/ ArithOperator
    \/ Strftime \/ BaseStrftime \/ BaseAt
    \/ GetState \/ SetState \/ Pickle

Spec == Init /\ [][Next]_vars

\* every instance there is: the ones created and the class attributes
Instances ==
    {objs[i] : i \in Slots}
        \cup {classattrs.LocalDatetime.min, classattrs.LocalDatetime.max,
              classattrs.UTCDatetime.min, classattrs.UTCDatetime.max}

(***************************************************************************)
(* The properties.                                                         *)
(***************************************************************************)
\* the native datetime a constructor call was given: the argument itself,
\* or what the host parser reads from the text
GivenDatetime ==
    CASE last.op \in {"new", "now"} -> Return("datetime", last.arg)
      [] last.op = "from_iso_format" -> fromisoformat(last.arg)
      [] last.op = "strptime" ->
            datetime_strptime(last.arg.date_string, last.arg.format_string)

ByDatetime(cls) ==
    /\ last.cls = cls
    /\ last.op \in {"new", "now", "from_iso_format", "strptime"}
    /\ ~Raised(GivenDatetime)

\* C1, in a state: every LocalDatetime instance there is, the class attributes
\* min and max included, stores a datetime whose tzinfo is None; a LocalDatetime
\* construction (direct, now, from_iso_format, strptime) from a datetime or a
\* text with an offset raises ValueError, and creates no instance; at gives
\* its datetime tzinfo=None and never raises for an offset.
C1_StoredAndRefused ==
    /\ \A v \in Instances : v.cls = "LocalDatetime" => v._at.tzinfo = None
    /\ (ByDatetime("LocalDatetime") /\ GivenDatetime.val.tzinfo # None)
          => (Raised(last.res) /\ last.res.exc = "ValueError")
    /\ (last.cls = "LocalDatetime" /\ last.op = "at" /\ Raised(last.res))
          => ~FieldsInRange(last.arg.fields[1], last.arg.fields[2],
                            last.arg.fields[3], last.arg.fields[4],
                            last.arg.fields[5], last.arg.fields[6],
                            last.arg.fields[7])

\* a call that raises creates no instance
RaisingCallCreatesNothing ==
    (last'.op # "idle" /\ Raised(last'.res)) => Len(objs') = Len(objs)

\* C1: every LocalDatetime instance stores a datetime with no offset, by
\* whichever constructor it was made; a construction from an input with an
\* offset raises ValueError (C1_StoredAndRefused, in every state) and a call
\* that raises creates no instance (in every step).
C1_LocalStoresNoOffset ==
    []C1_StoredAndRefused /\ [][RaisingCallCreatesNothing]_vars

\* C1's case: an instance exists and from_iso_format has just refused a text
\* with the offset +00:00
C1_Witness ==
    /\ \E i \in Slots : objs[i].cls = "LocalDatetime"
    /\ last.cls = "LocalDatetime" /\ last.op = "from_iso_format"
    /\ last.arg.offset = <<"+", 0, 0>>
    /\ last.res = Raise("ValueError", "fromisoformat: date_string contained tz info")

\* C2, in a state: every UTCDatetime instance there is, the class attributes
\* min and max included, stores a datetime whose tzinfo is UTC (offset zero); a
\* UTCDatetime construction from a datetime or a text with no offset raises
\* ValueError; one from a datetime or a text with any fixed offset that
\* returns an instance has stored the same instant at offset zero.
C2_StoredAndRefused ==
    /\ \A v \in Instances : v.cls = "UTCDatetime" => v._at.tzinfo = utc
    /\ (ByDatetime("UTCDatetime") /\ GivenDatetime.val.tzinfo = None)
          => (Raised(last.res) /\ last.res.exc = "ValueError")
    /\ (ByDatetime("UTCDatetime") /\ last.res.kind = "instance")
          => /\ GivenDatetime.val.tzinfo # None
             /\ OffsetOf(objs[last.res.val]._at) = 0
             /\ Instant(objs[last.res.val]._at) = Instant(GivenDatetime.val)
    /\ (last.cls = "UTCDatetime" /\ last.op \in {"at", "from_timestamp"}
          /\ last.res.kind = "instance")
          => OffsetOf(objs[last.res.val]._at) = 0

\* C2: every UTCDatetime instance stores a datetime at offset zero, by
\* whichever constructor it was made; an input at another offset is converted
\* to UTC before it is stored and an input with no offset raises ValueError
\* (C2_StoredAndRefused, in every state), and a call that raises creates no
\* instance (in every step).
C2_UTCStoresOffsetZero ==
    []C2_StoredAndRefused /\ [][RaisingCallCreatesNothing]_vars

\* C2's case: a datetime at +04:30 was given to UTCDatetime(...), and the
\* instance made of it stores 19:29:59.333444 at offset zero
C2_Witness ==
    /\ last.cls = "UTCDatetime" /\ last.op = "new"
    /\ last.arg = Mk(LateWall, {270})
    /\ last.res.kind = "instance"
    /\ objs[last.res.val]._at = Mk(EarlyWall, utc)

\* the message of the AttributeError __setattr__ and __delattr__ raise
NoAttribute(cls, name) ==
    Raise("AttributeError", "'" \o cls \o "' object has no attribute '" \o name \o "'")

\* C3: setting or deleting any attribute of any instance, the existing _at
\* included, raises AttributeError "'<ClassName>' object has no attribute
\* '<name>'" and leaves every instance as it was.
C3_SetAndDeleteRefused ==
    [][last'.op \in {"__setattr__", "__delattr__"}
         => /\ last'.res = NoAttribute(last'.cls, last'.arg.name)
            /\ last'.cls = objs[last'.self].cls
            /\ objs' = objs
            /\ classattrs' = classattrs]_vars

\* C3's case: setattr(v, "_at", 1) on a UTCDatetime has raised
C3_Witness ==
    /\ last.op = "__setattr__" /\ last.arg.name = "_at"
    /\ last.res = Raise("AttributeError", "'UTCDatetime' object has no attribute '_at'")

\* C4: no call on an existing instance changes what it stores.
C4_InstancesNeverChange ==
    [][\A i \in Slots : objs'[i] = objs[i]]_vars

\* C5: N == A and A == N, for a LocalDatetime N and a UTCDatetime A, both
\* evaluate to False and neither raises.
C5_VariantsNeverEqual ==
    (last.op = "==" /\ {last.arg.left.cls, last.arg.right.cls} = Classes)
        => last.res = Return("bool", FALSE)

\* C5's case: N == A has been evaluated for an N and an A of the same
\* calendar fields
C5_Witness ==
    /\ last.op = "=="
    /\ last.arg.left.cls = "LocalDatetime" /\ last.arg.right.cls = "UTCDatetime"
    /\ ReplaceTz(last.arg.right._at, None) = last.arg.left._at
    /\ last.res = Return("bool", FALSE)

\* C6: __eq__ returns NotImplemented for a value of the other variant or of
\* an unrelated type, and True or False exactly for a value of the same
\* variant or a native datetime.
C6_EqMethodThreeValued ==
    last.op = "__eq__"
        => IF last.arg.cls \in {last.cls, "datetime"}
           THEN last.res.kind = "bool"
           ELSE last.res = NotImplemented

\* C7: v == d and d == v, for a native datetime d: for a LocalDatetime v the
\* result is True exactly when d has no offset and the calendar fields of v;
\* for a UTCDatetime v it is True exactly when d has an offset and its
\* conversion to UTC has the calendar fields of v; otherwise it is False.
C7_EqualsNativeDatetime ==
    (last.op = "==" /\ "datetime" \in {last.arg.left.cls, last.arg.right.cls})
        => LET d == IF last.arg.left.cls = "datetime"
                    THEN last.arg.left.val ELSE last.arg.right.val
               v == objs[last.self]
           IN last.res =
                Return("bool",
                       IF v.cls = "LocalDatetime" THEN d = v._at
                       ELSE /\ d.tzinfo # None
                            /\ ~Raised(astimezone_utc(d))
                            /\ astimezone_utc(d).val = v._at)

\* C7's case: d == v is True for d at 23:59:59.333444+04:30 and the
\* UTCDatetime v at 19:29:59.333444
C7_Witness ==
    /\ last.op = "=="
    /\ last.arg.left.cls = "datetime" /\ last.arg.left.val = Mk(LateWall, {270})
    /\ last.arg.right.cls = "UTCDatetime"
    /\ last.arg.right._at = Mk(EarlyWall, utc)
    /\ last.res = Return("bool", TRUE)

\* C8: hash(v) is the hash of the datetime v stores.
C8_HashOfStoredDatetime ==
    last.op = "__hash__" => last.res = datetime_hash(objs[last.self]._at)

\* the instance a constructor call has just returned
Made == objs[last.res.val]

ByUTCText ==
    /\ last.cls = "UTCDatetime"
    /\ last.op \in {"new", "from_iso_format", "strptime"}
    /\ last.res.kind = "instance"

\* C9: a UTCDatetime built (directly, by from_iso_format or by strptime)
\* from the representation of an instant at any fixed offset stores the UTC
\* fields of that instant: it has the stored fields of, and is equal to,
\* every UTCDatetime of the same instant, whatever offset that one was built
\* from; 2020-03-04T23:59:59.333444+04:30 gives 19:29:59.333444 of that day.
C9_SameInstantSameInstance ==
    ByUTCText
        => /\ \A j \in Slots :
                (objs[j].cls = "UTCDatetime"
                    /\ Instant(objs[j]._at) = Instant(GivenDatetime.val))
                  => /\ objs[j]._at = Made._at
                     /\ OperatorEq(objs[j], Made) = Return("bool", TRUE)
           /\ Made._at.tzinfo = utc
           /\ Instant(Made._at) = Instant(GivenDatetime.val)
           /\ GivenDatetime.val = Mk(LateWall, {270})
                  => Made._at = Mk(EarlyWall, utc)

\* C9's case: from_iso_format of the text at +04:30 has made an instance with
\* the stored fields of the instance made before it at 19:29:59.333444 UTC
C9_Witness ==
    /\ ByUTCText /\ last.op = "from_iso_format"
    /\ last.arg.offset = <<"+", 4, 30>>
    /\ last.res.val = 2
    /\ objs[1] = [cls |-> "UTCDatetime", _at |-> Mk(EarlyWall, utc)]
    /\ objs[2] = objs[1]

\* a parsing constructor has been called with a text the host parser reads
ByParser ==
    /\ last.op \in {"from_iso_format", "strptime"}
    /\ ~Raised(GivenDatetime)

\* the offset suffix of the text given to the parsing constructor
TextOffset ==
    IF last.op = "from_iso_format" THEN last.arg.offset
    ELSE last.arg.date_string.offset

\* the ValueError of a parsing constructor
TzInfoError(what) ==
    Raise("ValueError",
          (IF last.op = "from_iso_format" THEN "fromisoformat" ELSE "strptime")
              \o ": date_string " \o what \o " tz info")

\* C10, as claimed: the LocalDatetime parsers raise ValueError "... date_string
\* contained tz info" exactly for a text with an offset, the UTCDatetime
\* parsers raise ValueError "... date_string didn't contain tz info" exactly
\* for a text with none, and every other well-formed text gives an instance.
C10_OnlyOffsetPresenceFails ==
    ByParser
        => IF last.cls = "LocalDatetime"
           THEN IF TextOffset # <<>> THEN last.res = TzInfoError("contained")
                ELSE last.res.kind = "instance"
           ELSE IF TextOffset = <<>> THEN last.res = TzInfoError("didn't contain")
                ELSE last.res.kind = "instance"

\* C10, amended: as claimed, except that a UTCDatetime parser given a text
\* with an offset whose instant, at UTC, lies before 0001-01-01 or after
\* 9999-12-31 raises OverflowError; every other well-formed text gives an
\* instance, and a LocalDatetime made of a text has the fields of the text.
C10_OffsetPresenceOrRangeFails ==
    ByParser
        => IF last.cls = "LocalDatetime"
           THEN IF TextOffset # <<>> THEN last.res = TzInfoError("contained")
                ELSE /\ last.res.kind = "instance"
                     /\ Made._at = GivenDatetime.val
           ELSE IF TextOffset = <<>> THEN last.res = TzInfoError("didn't contain")
                ELSE IF Instant(GivenDatetime.val)[1] \in 1..MaxOrdinal
                THEN last.res.kind = "instance"
                ELSE last.res = Raise("OverflowError", "date value out of range")

\* C10's case: UTCDatetime.from_iso_format of 0001-01-01T00:00:00.000000+04:30,
\* which is in year 0 at UTC, has raised OverflowError
C10_Witness ==
    /\ ByParser /\ last.cls = "UTCDatetime" /\ last.op = "from_iso_format"
    /\ last.arg.date = <<MINYEAR, 1, 1>> /\ last.arg.offset = <<"+", 4, 30>>
    /\ last.res.kind = "raise" /\ last.res.exc = "OverflowError"

\* the instances there were before the call: every instance but the one the
\* call has just made
Earlier ==
    {objs[j] : j \in Slots \ (IF last.res.kind = "instance" THEN {last.res.val}
                               ELSE {})}
        \cup {classattrs.LocalDatetime.min, classattrs.LocalDatetime.max,
              classattrs.UTCDatetime.min, classattrs.UTCDatetime.max}

\* C11: from_iso_format(V.iso_format()), with the default separator and the
\* default precision microseconds, returns an instance equal to V, for every
\* instance V of either class: whenever from_iso_format of a class has been
\* given the text iso_format() gives for an instance V of that class, it has
\* returned an instance, and that instance == V and V == that instance.
C11_IsoFormatRoundTrip ==
    last.op = "from_iso_format"
        => \A v \in Earlier :
              (v.cls = last.cls /\ IsoFormatDefault(v) = last.arg)
                 => /\ last.res.kind = "instance"
                    /\ OperatorEq(Made, v) = Bool(TRUE)
                    /\ OperatorEq(v, Made) = Bool(TRUE)

\* C11's case: the UTCDatetime made of 2020-03-01T00:00+04:30 stores February
\* 29th 19:30 UTC, and from_iso_format of its text has made a second instance
C11_Witness ==
    /\ last.op = "from_iso_format" /\ last.cls = "UTCDatetime"
    /\ last.res = Return("instance", 2)
    /\ objs[1].cls = "UTCDatetime"
    /\ objs[1]._at = Mk(<<2020, 2, 29, 19, 30, 0, 0>>, utc)
    /\ last.arg = IsoFormatDefault(objs[1])
    /\ last.arg.frac = <<6, 0>> /\ last.arg.offset = <<"+", 0, 0>>

\* a from_iso_format call has accepted a text at microseconds precision
AcceptedMicrosecondsText ==
    /\ last.op = "from_iso_format"
    /\ last.res.kind = "instance"
    /\ last.arg.sep = DefaultSep
    /\ Len(last.arg.time) = 3
    /\ last.arg.frac # <<>>
    /\ last.arg.frac[1] = 6

\* C12, as claimed: from_iso_format(T).iso_format() is exactly T, for every
\* text T at microseconds precision that from_iso_format of a class accepts.
C12_AcceptedTextComesBack ==
    AcceptedMicrosecondsText => IsoFormatDefault(Made) = last.arg

\* C12, amended: from_iso_format(T).iso_format() is exactly T for every such
\* T that LocalDatetime accepts and every such T with the offset +00:00 that
\* UTCDatetime accepts; for a T with another offset that UTCDatetime accepts,
\* it is the text of the same instant at +00:00, which differs from T.
C12_TextComesBackAtUTC ==
    AcceptedMicrosecondsText
        => IF last.cls = "UTCDatetime" /\ last.arg.offset # <<"+", 0, 0>>
           THEN /\ IsoFormatDefault(Made)
                      = isoformat(astimezone_utc(fromisoformat(last.arg).val).val,
                                  DefaultSep, DefaultTimespec)
                /\ IsoFormatDefault(Made) # last.arg
           ELSE IsoFormatDefault(Made) = last.arg

\* C12's case: UTCDatetime.from_iso_format of 2020-03-04T23:59:59.333444+04:30
\* has made an instance whose text is 2020-03-04T19:29:59.333444+00:00
C12_Witness ==
    /\ AcceptedMicrosecondsText /\ last.cls = "UTCDatetime"
    /\ last.arg.offset = <<"+", 4, 30>>
    /\ last.arg.time = <<23, 59, 59>>
    /\ IsoFormatDefault(Made).time = <<19, 29, 59>>
    /\ IsoFormatDefault(Made).offset = <<"+", 0, 0>>

\* the seven field values of a datetime, in the order of at's parameters
Fields(d) == <<d.year, d.month, d.day, d.hour, d.minute, d.second, d.microsecond>>

\* C13: repr(V) is "<ClassName>.at(y, m, d, h, mi, s, us)" with the seven
\* field values of V in that order, and the at constructor of V's class,
\* called with the values as printed, gives an instance equal to V.
C13_ReprIsAtCall ==
    last.op = "__repr__"
        => LET v == objs[last.self]
               r == IF v.cls = "LocalDatetime" THEN LocalDatetime_at(Fields(v._at))
                    ELSE UTCDatetime_at(Fields(v._at), TRUE)
           IN /\ last.res.kind = "str"
              /\ last.res.val.call = v.cls \o ".at"
              /\ last.res.val.args = Fields(v._at)
              /\ r.kind = "instance"
              /\ OperatorEq(r.val, v) = Bool(TRUE)

\* C19: BaseDatetime(d) raises TypeError "Can't instantiate abstract class
\* BaseDatetime ..." for every native datetime d, and no instance of
\* BaseDatetime itself ever exists.
C19_BaseNotInstantiable ==
    /\ \A v \in Instances : v.cls \in Classes
    /\ (last.op = "new" /\ last.cls = "BaseDatetime")
          => last.res =
               Raise("TypeError",
                     "Can't instantiate abstract class BaseDatetime with abstract method __init__")

\* C19's case: BaseDatetime(d) has raised for a d with an offset, while an
\* instance of a subclass exists
C19_Witness ==
    /\ last.op = "new" /\ last.cls = "BaseDatetime"
    /\ last.arg.tzinfo = {270}
    /\ Raised(last.res) /\ last.res.exc = "TypeError"
    /\ Len(objs) = 1

\* the number of "%" characters right before position k of a format string
PercentsBefore(fmt, k) ==
    LET stops == {j \in 1..(k - 1) : fmt[j] # "%"}
    IN k - 1 - (IF stops = {} THEN 0
                ELSE CHOOSE j \in stops : \A h \in stops : h <= j)

\* a "z" or "Z" that an odd number of "%" characters precede
LiveTimezoneDirective(fmt) ==
    \E k \in 1..Len(fmt) : fmt[k] \in {"z", "Z"} /\ PercentsBefore(fmt, k) % 2 = 1

\* the text a format string of %Y, %m, %d, %% and plain characters renders
\* to: a number for a directive, "%" for "%%", the character otherwise
RECURSIVE Rendered(_, _)
Rendered(fmt, d) ==
    IF fmt = <<>> THEN <<>>
    ELSE IF fmt[1] = "%" /\ Len(fmt) >= 2
    THEN <<CASE fmt[2] = "Y" -> [text |-> "", number |-> d.year]
             [] fmt[2] = "m" -> [text |-> "", number |-> d.month]
             [] fmt[2] = "d" -> [text |-> "", number |-> d.day]
             [] OTHER -> [text |-> fmt[2], number |-> 0]>>
            \o Rendered(SubSeq(fmt, 3, Len(fmt)), d)
    ELSE <<[text |-> fmt[1], number |-> 0]>> \o Rendered(Tail(fmt), d)

\* C14: LocalDatetime.strftime(fmt) raises ValueError exactly when fmt has a
\* "z" or "Z" right after an odd number of "%" characters; otherwise it
\* returns the rendered text, in which "%%" is "%" ("%Y-%m-%d %%z" gives
\* "2030-04-05 %z").
C14_StrftimeRejectsLiveTimezone ==
    (last.op = "strftime" /\ last.cls = "LocalDatetime")
        => IF LiveTimezoneDirective(last.arg)
           THEN Raised(last.res) /\ last.res.exc = "ValueError"
           ELSE /\ last.res.kind = "str"
                /\ last.res.val = Rendered(last.arg, objs[last.self]._at)

\* other can be ordered with, and subtracted from, v: an instance of the
\* class of v, or a native datetime that has an offset exactly when v has
Comparable(v, other) ==
    \/ other.cls = v.cls
    \/ other.cls = "datetime"
          /\ (other.val.tzinfo = None) = (v.cls = "LocalDatetime")

\* the instant of an instance or of a native datetime
InstantOf(x) == IF x.cls = "datetime" THEN Instant(x.val) ELSE Instant(x._at)

\* instant a is earlier than instant b
Earlier3(a, b) ==
    \/ a[1] < b[1]
    \/ a[1] = b[1] /\ a[2] < b[2]
    \/ a[1] = b[1] /\ a[2] = b[2] /\ a[3] < b[3]

\* the chronological answer of an ordering method
Chronological(name, a, b) ==
    CASE name = "__lt__" -> Earlier3(a, b)
      [] name = "__le__" -> ~Earlier3(b, a)
      [] name = "__gt__" -> Earlier3(b, a)
      [] name = "__ge__" -> ~Earlier3(a, b)

\* C15: __lt__, __le__, __gt__ and __ge__ of an instance return
\* NotImplemented for a value of the other class, a native datetime whose
\* offset presence does not match and a value of an unrelated type;
\* otherwise they return True or False by the chronological order of the two
\* instants, so that a value is neither less nor greater than itself.
C15_OrderingThreeValued ==
    last.op \in {"__lt__", "__le__", "__gt__", "__ge__"}
        => IF Comparable(objs[last.self], last.arg)
           THEN last.res = Bool(Chronological(last.op, InstantOf(objs[last.self]),
                                              InstantOf(last.arg)))
           ELSE last.res = NotImplemented

\* <<days, seconds, microseconds>> with the seconds in 0..86399 and the
\* microseconds in 0..999999: an instant, or the value of a timedelta
Normalised(t) ==
    LET seconds == t[2] + (t[3] \div 1000000)
    IN <<t[1] + (seconds \div 86400), seconds % 86400, t[3] % 1000000>>

\* the timedelta between two instants, a - b
Between(a, b) ==
    Return("timedelta", Normalised(<<a[1] - b[1], a[2] - b[2], a[3] - b[3]>>))

\* the instance of the class of v at the instant of v moved by the timedelta
\* value t, forward (sign 1) or back (sign -1)
Shifted(v, t, sign) ==
    LET i == Instant(v._at)
    IN Return("instance",
              [cls |-> v.cls,
               _at |-> AtInstant(Normalised(<<i[1] + sign * t[1], i[2] + sign * t[2],
                                              i[3] + sign * t[3]>>),
                                 v._at.tzinfo)])

\* the operand of a binary operator that is not the instance objs[last.self]
OtherOperand ==
    IF last.arg.left.cls \in Classes THEN last.arg.right ELSE last.arg.left

\* C16: V + d and d + V, for an instance V and a duration d of either sign,
\* both return a new instance of the class of V whose instant is that of V
\* moved by d, and so two equal results; __add__ and __radd__ with a value
\* that is not a duration return NotImplemented.
C16_AddDuration ==
    /\ last.op \in {"__add__", "__radd__"}
          => IF last.arg.cls = "timedelta"
             THEN /\ last.res.kind = "instance"
                  /\ last.res = Shifted(objs[last.self], last.arg.val, 1)
             ELSE last.res = NotImplemented
    /\ (last.op = "+" /\ OtherOperand.cls = "timedelta")
          => /\ last.res.kind = "instance"
             /\ last.res = Shifted(objs[last.self], OtherOperand.val, 1)

\* C17: V - W, for W an instance of the class of V or a native datetime with
\* the matching offset presence, is the signed duration between the two
\* instants, and W - V its negation, also for a native W on the left; V - d
\* for a duration d is a new instance of the class of V moved back by d;
\* __sub__ and __rsub__ with a value of mismatched offset presence or of an
\* unrelated type return NotImplemented.
C17_Subtraction ==
    /\ last.op = "__sub__"
          => IF Comparable(objs[last.self], last.arg)
             THEN /\ last.res.kind = "timedelta"
                  /\ last.res = Between(InstantOf(objs[last.self]), InstantOf(last.arg))
             ELSE IF last.arg.cls = "timedelta"
             THEN /\ last.res.kind = "instance"
                  /\ last.res = Shifted(objs[last.self], last.arg.val, -1)
             ELSE last.res = NotImplemented
    /\ last.op = "__rsub__"
          => IF Comparable(objs[last.self], last.arg)
             THEN /\ last.res.kind = "timedelta"
                  /\ last.res = Between(InstantOf(last.arg), InstantOf(objs[last.self]))
             ELSE last.res = NotImplemented
    /\ (last.op = "-" /\ Comparable(objs[last.self], OtherOperand))
          => /\ last.res.kind = "timedelta"
             /\ last.res = Between(InstantOf(last.arg.left), InstantOf(last.arg.right))
    /\ (last.op = "-" /\ last.arg.right.cls = "timedelta")
          => /\ last.res.kind = "instance"
             /\ last.res = Shifted(objs[last.self], last.arg.right.val, -1)

\* C18: V.__getstate__() is the datetime V stores, with its offset for a
\* UTCDatetime; V.__setstate__(s) makes the stored datetime s; and
\* pickle.loads(pickle.dumps(V, protocol)) is an instance equal to V, at every
\* protocol.
C18_StateIsStoredDatetime ==
    /\ last.op = "__getstate__"
          => /\ last.res.kind = "datetime"
             /\ last.res.val = objs[last.self]._at
    /\ last.op = "__setstate__"
          => /\ last.res = ReturnNone
             /\ objs[last.self]._at = last.arg
    /\ last.op = "pickle"
          => /\ last.res.kind = "instance"
             /\ OperatorEq(last.res.val, objs[last.self]) = Bool(TRUE)

\* C20: BaseDatetime.at(year, month, day) raises NotImplementedError
\* "BaseDatetime does not implement at()", and BaseDatetime.strftime applied
\* to an instance raises NotImplementedError "... does not implement
\* strftime()".
C20_AbstractHooksNotImplemented ==
    /\ (last.op = "at" /\ last.cls = "BaseDatetime")
          => last.res = Raise("NotImplementedError",
                              "BaseDatetime does not implement at()")
    /\ last.op = "BaseDatetime.strftime"
          => /\ Raised(last.res)
             /\ last.res.exc = "NotImplementedError"

\* the seven field values of the extreme datetimes
MinFields == <<MINYEAR, 1, 1, 0, 0, 0, 0>>
MaxFields == <<MAXYEAR, 12, 31, 23, 59, 59, 999999>>

\* cls.at(...) called with positional arguments
AtPositional(cls, f) ==
    IF cls = "LocalDatetime" THEN LocalDatetime_at(f) ELSE UTCDatetime_at(f, TRUE)

\* C21: min and max of each class are instances of the class; min equals
\* its at(1, 1, 1, 0, 0, 0, 0) and max its at(9999, 12, 31, 23, 59, 59,
\* 999999), at called with positional arguments; those of UTCDatetime carry
\* the offset of UTC.
C21_MinMaxAreAtExtremes ==
    \A cls \in Classes :
        /\ classattrs[cls].min.cls = cls
        /\ classattrs[cls].max.cls = cls
        /\ cls = "UTCDatetime"
              => /\ classattrs[cls].min._at.tzinfo = utc
                 /\ classattrs[cls].max._at.tzinfo = utc
        /\ AtPositional(cls, MinFields).kind = "instance"
        /\ OperatorEq(classattrs[cls].min, AtPositional(cls, MinFields).val)
              = Bool(TRUE)
        /\ AtPositional(cls, MaxFields).kind = "instance"
        /\ OperatorEq(classattrs[cls].max, AtPositional(cls, MaxFields).val)
              = Bool(TRUE)

\* C22: iso_format of a LocalDatetime has no offset suffix and iso_format of
\* a UTCDatetime ends with +00:00, for every instance, separator and time
\* precision; str(V) is the text of V at separator T and with the three time
\* components and the six digits of the microsecond.
C22_OffsetSuffixByClass ==
    /\ last.op \in {"iso_format", "__str__"}
          => /\ last.res.kind = "str"
             /\ last.res.val.offset
                  = (IF last.cls = "LocalDatetime" THEN <<>> ELSE <<"+", 0, 0>>)
    /\ last.op = "iso_format" => last.res.val.sep = last.arg.sep
    /\ last.op = "__str__"
          => LET d == objs[last.self]._at
             IN /\ last.res.val.date = <<d.year, d.month, d.day>>
                /\ last.res.val.sep = "T"
                /\ last.res.val.time = <<d.hour, d.minute, d.second>>
                /\ last.res.val.frac = <<6, d.microsecond>>

\* C22's case: iso_format(sep=" ", timespec="hours") of a UTCDatetime made of
\* a datetime at +04:30 has given a text with the hour and +00:00
C22_Witness ==
    /\ last.op = "iso_format" /\ last.cls = "UTCDatetime"
    /\ last.arg = [sep |-> " ", timespec |-> "hours"]
    /\ objs[last.self]._at = Mk(EarlyWall, utc)
    /\ last.res.val.time = <<19>>
    /\ last.res.val.offset = <<"+", 0, 0>>

\* UTCDatetime.from_iso_format has made an instance of a text with the wall
\* time and the offset given
MadeOfText(time, offset) ==
    /\ last.op = "from_iso_format" /\ last.cls = "UTCDatetime"
    /\ last.res.kind = "instance"
    /\ last.arg.time = time /\ last.arg.offset = offset

\* the instance made by UTCDatetime.from_iso_format has the stored datetime
\* of, and is equal to, the one the same call makes of the text with the
\* other wall time and offset and the same date
SameAsTextAt(time, offset) ==
    LET other == UTCDatetime_from_iso_format(
                     [last.arg EXCEPT !.time = time, !.offset = offset])
    IN /\ other.kind = "instance"
       /\ other.val._at = Made._at
       /\ OperatorEq(other.val, Made) = Bool(TRUE)
       /\ \A j \in Slots :
             (objs[j].cls = "UTCDatetime" /\ objs[j]._at = other.val._at)
                => OperatorEq(objs[j], Made) = Bool(TRUE)

\* C23, as claimed: UTCDatetime.from_iso_format of a text with the wall time
\* 19:29:59 and the offset +04:30 and of the text of the same date with the
\* wall time 23:59:59 and the offset +00:00 store the same datetime, and the
\* two instances are equal.
C23_EarlyWallAtOffsetIsLateWallAtUTC ==
    /\ MadeOfText(<<19, 29, 59>>, <<"+", 4, 30>>)
          => SameAsTextAt(<<23, 59, 59>>, <<"+", 0, 0>>)
    /\ MadeOfText(<<23, 59, 59>>, <<"+", 0, 0>>)
          => SameAsTextAt(<<19, 29, 59>>, <<"+", 4, 30>>)

\* C23, amended: the wall time 23:59:59 at the offset +04:30 and the wall
\* time 19:29:59 of the same date at the offset +00:00 store the same
\* datetime, and the two instances are equal.
C23_LateWallAtOffsetIsEarlyWallAtUTC ==
    /\ MadeOfText(<<23, 59, 59>>, <<"+", 4, 30>>)
          => SameAsTextAt(<<19, 29, 59>>, <<"+", 0, 0>>)
    /\ MadeOfText(<<19, 29, 59>>, <<"+", 0, 0>>)
          => SameAsTextAt(<<23, 59, 59>>, <<"+", 4, 30>>)

\* C23's case: the first instance was made of 23:59:59.333444+04:30 or of
\* its equal, and from_iso_format of 2020-03-04T19:29:59.333444+00:00 has
\* made a second instance that stores the same datetime
C23_Witness ==
    /\ MadeOfText(<<19, 29, 59>>, <<"+", 0, 0>>)
    /\ last.arg.date = <<2020, 3, 4>>
    /\ last.res.val = 2
    /\ objs[1].cls = "UTCDatetime"
    /\ objs[1]._at = objs[2]._at

\* the fields of a native datetime are those of a calendar date and a time
InCalendar(d) ==
    FieldsInRange(d.year, d.month, d.day, d.hour, d.minute, d.second,
                  d.microsecond)

\* the first and the last instant of years 1..9999
FirstInstant == <<1, 0, 0>>
LastInstant == <<MaxOrdinal, 86399, 999999>>

\* the min and the max of each class are the first and the last instant, and
\* each instance made stores calendar fields on a day from the first to the
\* last: with its time of day in 0..86399 and its microsecond in 0..999999
\* it is not before its class's min and not after its class's max
WithinMinMax ==
    /\ \A cls \in Classes :
          /\ Instant(classattrs[cls].min._at) = FirstInstant
          /\ Instant(classattrs[cls].max._at) = LastInstant
    /\ \A v \in Instances : InCalendar(v._at)
    /\ \A i \in Slots : Instant(objs[i]._at)[1] \in 1..MaxOrdinal

\* the datetime a UTCDatetime constructor or __init__ was given has an offset
\* and lies, at UTC, before year 1 or after year 9999
GivenOutOfRange ==
    \/ /\ ByDatetime("UTCDatetime")
       /\ GivenDatetime.val.tzinfo # None
       /\ Instant(GivenDatetime.val)[1] \notin 1..MaxOrdinal
    \/ /\ last.op = "__init__" /\ last.cls = "UTCDatetime"
       /\ last.arg.tzinfo # None
       /\ Instant(last.arg)[1] \notin 1..MaxOrdinal

\* C24, in a state: every instance stores a datetime of calendar fields that
\* is not before its class's min and not after its class's max; at with a
\* field out of range (month 13, day 30 of February, day 32) has raised; a
\* UTCDatetime construction or __init__ from a datetime or text whose instant
\* at UTC lies outside years 1..9999 has raised; and an instance that was
\* made, or initialised again, stores the very instant (for at: the very
\* fields) it was given, not a wrapped or clamped one.
C24_State ==
    /\ WithinMinMax
    /\ (last.op = "at" /\ ~InCalendar(Mk(last.arg.fields, None)))
          => Raised(last.res)
    /\ GivenOutOfRange => Raised(last.res)
    /\ (last.op = "at" /\ last.res.kind = "instance")
          => ReplaceTz(Made._at, None) = Mk(last.arg.fields, None)
    /\ ((ByDatetime("LocalDatetime") \/ ByDatetime("UTCDatetime"))
           /\ last.res.kind = "instance")
          => Instant(Made._at) = Instant(GivenDatetime.val)
    /\ (last.op = "__init__" /\ ~Raised(last.res))
          => Instant(objs[last.self]._at) = Instant(last.arg)

\* a call that raises leaves every instance as it was
RaisingCallChangesNothing ==
    (last'.op # "idle" /\ Raised(last'.res)) => objs' = objs

====
